---- MODULE Spec2Model ----
(***************************************************************************)
(* A model of the CATCH query cache and multi-source dispatcher            *)
(* (catch/catch.py): Catch.query, its moving-target and fixed-target       *)
(* branches, the cache lookup, the copy of cached results, caught() and    *)
(* is_query_cached().                                                      *)
(*                                                                         *)
(* The store (catch_query, found, observation tables) is the state.  One   *)
(* action is one stretch of a handler between two commits, so every state  *)
(* of the model is a committed state of the store.  The external           *)
(* collaborators (ephemeris service, spatial search, add_found) are        *)
(* nondeterministic choices over what they can return or raise.            *)
(***************************************************************************)
EXTENDS Integers, Sequences, FiniteSets, TLC

\* Python's None and SQL's NULL, in a date, number or query_id position
None == -1

(***************************************************************************)
(* Bounds of the model.                                                    *)
(***************************************************************************)
MaxQueries == 2      \* rows of the catch_query table
MaxJobs == 2         \* distinct job ids

(***************************************************************************)
(* Catch.sources: the registry of known sources, keyed and sorted by       *)
(* table name.                                                             *)
(***************************************************************************)
sources_keys == <<"geodss", "tricam">>

KnownSources == {sources_keys[k] : k \in DOMAIN sources_keys}

\* the source lists a caller passes: one or two known names, or a list
\* with a name that is not in the registry
SourceLists ==
    {<<a>> : a \in KnownSources}
        \cup {l \in {<<a, b>> : a \in KnownSources, b \in KnownSources} : l[1] # l[2]}
        \cup {<<"unknown">>, <<sources_keys[1], "unknown">>}

\* the `sources` argument: None, or a list of names
SourceArgs ==
    {[none |-> TRUE, names |-> <<>>]} \cup {[none |-> FALSE, names |-> l] : l \in SourceLists}

MovingTargets == {"2P"}

FixedTargets == {"fixed"}

Jobs == 1 .. MaxJobs

\* The observations that may be in the observation store: one of each
\* survey, the first from date 1 to date 2, the second at date 2.  Dates
\* are counted in half-milliseconds.
ObsUniverse ==
    { [observation_id |-> 1, source |-> "geodss", mjd_start |-> 1, mjd_stop |-> 2],
      [observation_id |-> 2, source |-> "tricam", mjd_start |-> 2, mjd_stop |-> 2] }

\* The worlds a Catch object is constructed in: the observation table and
\* the date range <<start_date, stop_date>> it is given.  With both surveys
\* ingested: no range; a start inside the first survey and not after the
\* start of the second; a stop inside the first survey and before the
\* second; a start after the stop.  With the second survey still empty: no
\* range.
Worlds ==
    {[observations |-> ObsUniverse, dates |-> d] :
        d \in {<<None, None>>, <<2, None>>, <<None, 1>>, <<2, 1>>}}
    \cup {[observations |-> {o \in ObsUniverse : o.source = sources_keys[1]},
           dates |-> <<None, None>>]}

(***************************************************************************)
(* Time.iso: a date as text, to the millisecond: two dates of one          *)
(* millisecond have one text.                                              *)
(***************************************************************************)
Iso(t) == t \div 2

IsoOrNone(t) == IF t = None THEN None ELSE Iso(t)

\* ",".join(sources): the joined text is represented by the list of its
\* comma-separated fields; a table name alone is the one-field list
Join(srcs) == [k \in 1 .. Len(srcs) |-> srcs[k]]

VARIABLES
    observations,         \* the observation table
    queries,              \* the catch_query table: query_id -> row
    founds,               \* the found table: a set of rows
    next_found_id,        \* the found table's serial
    uncertainty_ellipse,  \* Catch.uncertainty_ellipse
    padding,              \* Catch.padding
    start_date,           \* Catch.start_date (a date or None)
    stop_date,            \* Catch.stop_date (a date or None)
    pc,                   \* where the running query() is
    call,                 \* the arguments of the last call
    i,                    \* query(): index of the source being processed
    count,                \* query(): the running count
    cached_query,         \* query(): the cached query found for this source
    n,                    \* query(): matches saved by the running search
    messages,             \* what the last step published on the job's channel
    raised,               \* the exception the last step's search raised, or ""
    result,               \* what the last call returned or raised
    audit,                \* history: per query_id, how the row was produced
    survey_statistics,    \* the survey_statistics table: a set of rows
    now,                  \* the clock, Time.now()
    sessions              \* the update_statistics calls of concurrent processes

params == <<uncertainty_ellipse, padding, start_date, stop_date>>

store == <<queries, founds, next_found_id>>

locals == <<i, count, cached_query, n>>

statistics == <<survey_statistics, now, sessions>>

vars == <<observations, queries, founds, next_found_id, uncertainty_ellipse,
          padding, start_date, stop_date, pc, call, i, count, cached_query, n,
          messages, raised, result, audit, survey_statistics, now, sessions>>


(***************************************************************************)
(* Helpers over the observation table.                                     *)
(***************************************************************************)
SetMin(S) == CHOOSE x \in S : \A y \in S : x <= y

SetMax(S) == CHOOSE x \in S : \A y \in S : y <= x

\* Catch._filter_by_source applied to the observation table
SourceObs(s) == {o \in observations : o.source = s}

\* func.min(Observation.mjd_start), func.max(Observation.mjd_stop): None
\* for a source without observations
mjd_survey_start(s) ==
    IF SourceObs(s) = {} THEN None
    ELSE SetMin({o.mjd_start : o \in SourceObs(s)})

mjd_survey_stop(s) ==
    IF SourceObs(s) = {} THEN None
    ELSE SetMax({o.mjd_stop : o \in SourceObs(s)})

(***************************************************************************)
(* Catch._find_catch_query: the requested dates are replaced by None when  *)
(* they are not inside the survey's range, and the last finished query     *)
(* with the same target, source, uncertainty_ellipse, padding (within 1%)  *)
(* and dates is returned (its query_id), None when there is none.          *)
(***************************************************************************)
\* a start date at the first observation counts as inside the range
find_start_date_inclusive(s) ==
    IF /\ mjd_survey_start(s) # None
       /\ start_date # None
       /\ start_date >= mjd_survey_start(s)
    THEN Iso(start_date) ELSE None

find_start_date(s) ==
    IF /\ mjd_survey_start(s) # None
       /\ start_date # None
       /\ start_date > mjd_survey_start(s)
    THEN Iso(start_date) ELSE None

find_stop_date(s) ==
    IF /\ mjd_survey_stop(s) # None
       /\ stop_date # None
       /\ stop_date < mjd_survey_stop(s)
    THEN Iso(stop_date) ELSE None

\* a padding filter that asks for the same value
padding_equal(stored, p) == stored = p

\* CatchQuery.padding.between(self.padding * 0.99, self.padding * 1.01)
padding_between(stored, p) == p * 99 <= stored * 100 /\ stored * 100 <= p * 101

\* a lookup that takes a row of any status
status_filter_any(q) == TRUE

\* .filter(CatchQuery.status == "finished")
status_filter(q) == q.status = "finished"

find_candidates(target, s) ==
    {id \in DOMAIN queries :
        /\ queries[id].query = target
        /\ queries[id].source = Join(<<s>>)
        /\ status_filter(queries[id])
        /\ queries[id].uncertainty_ellipse = uncertainty_ellipse
        /\ padding_between(queries[id].padding, padding)
        /\ queries[id].start_date = find_start_date(s)
        /\ queries[id].stop_date = find_stop_date(s)}

\* a lookup that takes the first match, not the last
find_catch_query_first(target, s) ==
    IF find_candidates(target, s) = {} THEN None
    ELSE SetMin(find_candidates(target, s))

\* .order_by(CatchQuery.query_id.desc()).first()
find_catch_query(target, s) ==
    IF find_candidates(target, s) = {} THEN None
    ELSE SetMax(find_candidates(target, s))

(***************************************************************************)
(* Reads of the store.                                                     *)
(***************************************************************************)
\* Catch.queries_from_job_id: the query_ids of a job
queries_from_job_id(job_id) == {id \in DOMAIN queries : queries[id].job_id = job_id}

\* Catch.caught: the (Found, Observation) pairs of a job
caught(job_id) ==
    {<<f, o>> \in founds \X observations :
        /\ f.observation_id = o.observation_id
        /\ f.query_id \in queries_from_job_id(job_id)}

\* The found rows a query owns, and their content: every column but
\* found_id and query_id (Catch._found_attributes)
FoundsOf(id) == {f \in founds : f.query_id = id}

found_attributes(f) == [observation_id |-> f.observation_id, object |-> f.object]

ContentOf(id) == {found_attributes(f) : f \in FoundsOf(id)}

\* Found.query_id: ForeignKey(catch_query.query_id, ondelete="CASCADE"): the
\* found rows that are left of fs when the query qid is deleted
delete_cascade(fs, qid) == {f \in fs : f.query_id # qid}

(***************************************************************************)
(* Catch.is_query_cached: the value the loop leaves in `cached`.           *)
(***************************************************************************)
RECURSIVE is_cached_loop(_, _, _)
is_cached_loop(target, srcs, cached) ==
    IF srcs = <<>> THEN cached
    ELSE is_cached_loop(target, Tail(srcs), find_catch_query(target, Head(srcs)) # None)

\* cached = True, then the loop over the sources; return cached
is_query_cached(target, srcs) == is_cached_loop(target, srcs, TRUE)


\* `call` and `result` describe the last operation: its name and arguments,
\* and what it returned or raised.  An operation without arguments of
\* interest and without a value leaves NoCall and NoResult.
NoCall(op) ==
    [op |-> op, target |-> "", job_id |-> 0, sources |-> <<>>, cached |-> FALSE,
     new_job |-> FALSE, base |-> 0]

NoResult == [kind |-> "none", value |-> 0]

\* SurveyStats(source=..., name=...): the other columns are NULL, and the
\* primary key stats_id is not set before the row is inserted
SurveyStats(source, name) ==
    [stats_id |-> None, source |-> source, name |-> name, count |-> None,
     start_date |-> None, stop_date |-> None, updated |-> None]

MaxSessions == 2     \* processes that update the statistics at a time

\* a process that is not in update_statistics
NoSession ==
    [pc |-> "idle", source |-> "", stats |-> SurveyStats("", ""), count |-> 0,
     start_date |-> None, stop_date |-> None]

NoSessions == [p \in 1 .. MaxSessions |-> NoSession]

(***************************************************************************)
(* The state after construction: an observation table as the ingestion     *)
(* scripts left it, no query yet, the search parameters as given to the    *)
(* constructor.                                                            *)
(***************************************************************************)
Init ==
    /\ \E w \in Worlds : /\ observations = w.observations
                         /\ start_date = w.dates[1]
                         /\ stop_date = w.dates[2]
    /\ queries = <<>>
    /\ founds = {}
    /\ next_found_id = 1
    /\ uncertainty_ellipse = FALSE
    /\ padding = 0
    /\ pc = "idle"
    /\ call = NoCall("none")
    /\ i = 0
    /\ count = 0
    /\ cached_query = None
    /\ n = 0
    /\ messages = <<>>
    /\ raised = ""
    /\ result = NoResult
    /\ audit = <<>>
    /\ survey_statistics = {}
    /\ now = 0
    /\ sessions = NoSessions

(***************************************************************************)
(* Catch.query: validation of the source names, then the dispatch.         *)
(***************************************************************************)
\* sources = self.sources.keys() when None
resolve_sources(arg) == IF arg.none THEN sources_keys ELSE arg.names

\* the call is recorded: its arguments, whether its job id is new to the
\* store, and the number of rows the catch_query table had when it began
Called(op, target, job_id, srcs, cached) ==
    call' = [op |-> op, target |-> target, job_id |-> job_id, sources |-> srcs,
             cached |-> cached, new_job |-> queries_from_job_id(job_id) = {},
             base |-> Len(queries)]

\* a validation that looks at the first name only
valid_sources_first_only(srcs) == srcs[1] \in KnownSources

\* for source in sources: self.sources[source]
valid_sources(srcs) == \A k \in DOMAIN srcs : srcs[k] \in KnownSources

\* a call that raises before it has used its other arguments: only what
\* it has read is recorded, the list of sources and, after the dispatch,
\* the target
Raising(op, target, srcs) ==
    call' = [NoCall(op) EXCEPT !.target = target, !.sources = srcs]

\* a name of the list is not a key of self.sources: ValueError, before
\* anything else is done
query_unknown_source(target, job_id, arg, cached) ==
    /\ pc = "idle"
    /\ ~valid_sources(resolve_sources(arg))
    /\ Raising("query", "", resolve_sources(arg))
    /\ result' = [kind |-> "ValueError", value |-> 0]
    /\ messages' = <<>>
    /\ raised' = ""
    /\ UNCHANGED <<observations, statistics, store, params, pc, locals, audit>>

\* a date check that never objects
date_range_error_never == FALSE

\* _query_moving_target: start_date after stop_date raises DateRangeError
date_range_error == start_date # None /\ stop_date # None /\ start_date > stop_date

query_date_range_error(target, job_id, arg, cached) ==
    /\ pc = "idle"
    /\ valid_sources(resolve_sources(arg))
    /\ target \in MovingTargets
    /\ date_range_error
    /\ Raising("query", target, resolve_sources(arg))
    /\ result' = [kind |-> "DateRangeError", value |-> 0]
    /\ messages' = <<>>
    /\ raised' = ""
    /\ UNCHANGED <<observations, statistics, store, params, pc, locals, audit>>

\* _query_moving_target: count = 0 and the loop over the sources begins
query_moving_target(target, job_id, arg, cached) ==
    /\ pc = "idle"
    /\ valid_sources(resolve_sources(arg))
    /\ target \in MovingTargets
    /\ ~date_range_error
    /\ Len(queries) + Len(resolve_sources(arg)) <= MaxQueries
    /\ Called("query", target, job_id, resolve_sources(arg), cached)
    /\ pc' = "source"
    /\ i' = 1
    /\ count' = 0
    /\ result' = [kind |-> "running", value |-> 0]
    /\ messages' = <<>>
    /\ raised' = ""
    /\ UNCHANGED <<observations, statistics, store, params, cached_query, n, audit>>


(***************************************************************************)
(* _query_moving_target, the body of the loop, for the source             *)
(* call.sources[i].  The row of the source is queries[Len(queries)].       *)
(***************************************************************************)
Message(level, source, text) == [level |-> level, source |-> source, text |-> text]

\* if cached and cached_query is not None
use_cached(cached, cq) == cached /\ cq # None

\* a row that is created as finished
new_moving_query_finished(target, job_id, s) ==
    [query |-> target,
     job_id |-> job_id,
     source |-> Join(<<s>>),
     status |-> "finished",
     uncertainty_ellipse |-> uncertainty_ellipse,
     padding |-> padding,
     start_date |-> IsoOrNone(start_date),
     stop_date |-> IsoOrNone(stop_date),
     intersection_type |-> "None",
     execution_time |-> None]

\* a row that names the first source of the registry, whatever the source
new_moving_query_first_key(target, job_id, s) ==
    [query |-> target,
     job_id |-> job_id,
     source |-> Join(<<sources_keys[1]>>),
     status |-> "in progress",
     uncertainty_ellipse |-> uncertainty_ellipse,
     padding |-> padding,
     start_date |-> IsoOrNone(start_date),
     stop_date |-> IsoOrNone(stop_date),
     intersection_type |-> "None",
     execution_time |-> None]

\* CatchQuery(..., status="in progress", ...) of the moving-target loop
new_moving_query(target, job_id, s) ==
    [query |-> target,
     job_id |-> job_id,
     source |-> Join(<<s>>),
     status |-> "in progress",
     uncertainty_ellipse |-> uncertainty_ellipse,
     padding |-> padding,
     start_date |-> IsoOrNone(start_date),
     stop_date |-> IsoOrNone(stop_date),
     intersection_type |-> "None",
     execution_time |-> None]

\* the cache lookup, the new row and its commit
begin_source ==
    /\ pc = "source"
    /\ LET s == call.sources[i]
           cq == find_catch_query(call.target, s)
       IN /\ cached_query' = cq
          /\ queries' = Append(queries, new_moving_query(call.target, call.job_id, s))
          /\ audit' = Append(audit, [path |-> IF use_cached(call.cached, cq)
                                               THEN "copy" ELSE "fresh",
                                     moving |-> TRUE,
                                     ephemeris |-> FALSE,
                                     start |-> start_date,
                                     stop |-> stop_date])
          /\ pc' = IF use_cached(call.cached, cq) THEN "copy" ELSE "search"
    /\ messages' = <<>>
    /\ raised' = ""
    /\ UNCHANGED <<observations, statistics, founds, next_found_id, params, call, i, count, n, result>>

\* once a call has ended, `call` keeps what names it: the operation, the
\* target, the job, the sources
Ended(c) == [c EXCEPT !.cached = FALSE]

\* the end of the loop body: the next source, or `return count`
Advance(c) ==
    /\ cached_query' = None
    /\ n' = 0
    /\ IF i < Len(call.sources)
       THEN /\ pc' = "source"
            /\ i' = i + 1
            /\ count' = c
            /\ result' = result
       ELSE /\ pc' = "idle"
            /\ i' = 0
            /\ count' = 0
            /\ result' = [kind |-> "count", value |-> c]
    /\ call' = IF i < Len(call.sources) THEN call ELSE Ended(call)

(***************************************************************************)
(* Catch._copy_cached_results: a new found row, owned by the new query,    *)
(* for each found row of the cached query.                                 *)
(***************************************************************************)
Rank(f, S) == Cardinality({g \in S : g.found_id < f.found_id})

\* a copy that leaves the new rows with the cached query
copy_cached_results_to_cached(qid, cq) ==
    {[found_id |-> next_found_id + Rank(f, FoundsOf(cq)),
      query_id |-> cq,
      observation_id |-> f.observation_id,
      object |-> f.object] : f \in FoundsOf(cq)}

\* a copy that keeps the found_id of the rows it copies
copy_cached_results_same_id(qid, cq) ==
    {[found_id |-> f.found_id,
      query_id |-> qid,
      observation_id |-> f.observation_id,
      object |-> f.object] : f \in FoundsOf(cq)}

\* found = Found(query_id=query.query_id); setattr(found, k, ...) for every
\* row of the cached query
copy_cached_results(qid, cq) ==
    {[found_id |-> next_found_id + Rank(f, FoundsOf(cq)),
      query_id |-> qid,
      observation_id |-> f.observation_id,
      object |-> f.object] : f \in FoundsOf(cq)}

\* a count that is not added to
count_add_nothing(c, k) == c

\* count += n
count_add(c, k) == c + k

\* the cached branch: copy, message, status finished, commit
copy_cached ==
    /\ pc = "copy"
    /\ LET qid == Len(queries)
           copies == copy_cached_results(qid, cached_query)
       IN /\ founds' = founds \cup copies
          /\ next_found_id' = next_found_id + Cardinality(copies)
          /\ messages' = <<Message("info", call.sources[i], "Added cached results.")>>
          /\ raised' = ""
          /\ queries' = [queries EXCEPT ![qid].status = "finished"]
          /\ Advance(count_add(count, Cardinality(copies)))
    /\ UNCHANGED <<observations, statistics, params, audit>>


(***************************************************************************)
(* Catch._find_and_cache_moving_target_observations and the try/except/    *)
(* else/finally around it.                                                 *)
(***************************************************************************)
\* the user-requested date range limits applied to the survey's range
search_mjd_start(s) ==
    IF start_date = None THEN mjd_survey_start(s)
    ELSE IF mjd_survey_start(s) >= start_date THEN mjd_survey_start(s) ELSE start_date

search_mjd_stop(s) ==
    IF stop_date = None THEN mjd_survey_stop(s)
    ELSE IF mjd_survey_stop(s) <= stop_date THEN mjd_survey_stop(s) ELSE stop_date

\* a check of the survey's range alone, without the requested window
no_observations_in_survey(s) ==
    \/ mjd_survey_start(s) = None
    \/ mjd_survey_stop(s) = None

\* the two places that raise DataSourceWarning
no_observations(s) ==
    \/ mjd_survey_start(s) = None
    \/ mjd_survey_stop(s) = None
    \/ search_mjd_stop(s) < search_mjd_start(s)

\* catch/exceptions.py: the classes derived from CatchException
CatchExceptions ==
    {"InvalidSessionID", "InvalidSourceName", "DateRangeError", "FindObjectError",
     "EphemerisError", "DataSourceError", "DataSourceWarning"}

\* imported by catch.py from catch/exceptions.py
AddFoundObservationsError == "AddFoundObservationsError"

is_catch_exception(e) == e \in CatchExceptions \cup {AddFoundObservationsError}

\* str(e) of the exceptions the search raises
exception_text(e) ==
    CASE e = "DataSourceWarning" -> "No observations to search in database."
      [] e = "EphemerisError" -> "Could not get an ephemeris."
      [] e = "FindObjectError" ->
            "Critical error: could not search database for this target."
      [] e = AddFoundObservationsError ->
            "Critical error: could not save results to the found object database."
      [] OTHER -> e

\* except clauses that all leave the query finished
status_on_exception_finished(e) == "finished"

\* except clauses that do not set the status
status_on_exception_unset(e) == "in progress"

\* the except clauses: the status a raised exception leaves, and the message
status_on_exception(e) ==
    IF e = "DataSourceWarning" THEN "finished" ELSE "errored"

\* handlers that publish the text of whatever was raised
message_on_exception_detail(e, s) ==
    IF e = "DataSourceWarning" THEN Message("info", s, exception_text(e))
    ELSE Message("error", s, exception_text(e))

message_on_exception(e, s) ==
    IF e = "DataSourceWarning" THEN Message("info", s, exception_text(e))
    ELSE IF is_catch_exception(e) THEN Message("error", s, exception_text(e))
    ELSE Message("error", s,
                 "Unexpected error.  Contact us with this issue and your job ID.")

\* time.monotonic() - execution_time: some number of seconds
elapsed == 1

\* a finally clause that leaves the row as it is
finally_execution_time_unset(q) == q

\* finally: q.execution_time = ...; commit
finally_execution_time(q) == [q EXCEPT !.execution_time = elapsed]

\* task_messenger.send("%s: Query from %s to %s.", ...)
query_from_message(s) == Message("info", s, "Query from start to stop.")

\* the search raised e: except clause, finally, and the loop goes on
Raised(e, msgs) ==
    LET qid == Len(queries)
        s == call.sources[i]
    IN /\ queries' = [queries EXCEPT
                         ![qid] = finally_execution_time(
                                      [@ EXCEPT !.status = status_on_exception(e)])]
       /\ messages' = msgs \o <<message_on_exception(e, s)>>
       /\ raised' = e
       /\ Advance(count)

\* no observations of the source, or none in the requested window
search_no_data ==
    /\ pc = "search"
    /\ no_observations(call.sources[i])
    /\ Raised("DataSourceWarning", <<>>)
    /\ UNCHANGED <<observations, statistics, founds, next_found_id, params, audit>>

EphemerisReached == [audit EXCEPT ![Len(queries)].ephemeris = TRUE]

\* _target.ephemeris(...) raises
search_ephemeris_error ==
    /\ pc = "search"
    /\ ~no_observations(call.sources[i])
    /\ audit' = EphemerisReached
    /\ Raised("EphemerisError", <<query_from_message(call.sources[i])>>)
    /\ UNCHANGED <<observations, statistics, founds, next_found_id, params>>

\* find_observations_by_ephemeris(eph) raises
search_find_error ==
    /\ pc = "search"
    /\ ~no_observations(call.sources[i])
    /\ audit' = EphemerisReached
    /\ Raised("FindObjectError", <<query_from_message(call.sources[i])>>)
    /\ UNCHANGED <<observations, statistics, founds, next_found_id, params>>

\* add_found(_target, observations) raises: no found row is left
search_add_found_error ==
    /\ pc = "search"
    /\ ~no_observations(call.sources[i])
    /\ SourceObs(call.sources[i]) # {}
    /\ audit' = EphemerisReached
    /\ Raised(AddFoundObservationsError, <<query_from_message(call.sources[i])>>)
    /\ UNCHANGED <<observations, statistics, founds, next_found_id, params>>

\* anything else raises (get_designation, the store): an exception that
\* is no CatchException
UnexpectedErrors == {"KeyError", "OperationalError"}

search_unexpected_error(e) ==
    /\ pc = "search"
    /\ ~no_observations(call.sources[i])
    /\ audit' = EphemerisReached
    /\ Raised(e, <<query_from_message(call.sources[i])>>)
    /\ UNCHANGED <<observations, statistics, founds, next_found_id, params>>

\* SBSearch.add_found: one found row per observation; found.query_id = query_id
add_found(target, M, qid) ==
    {[found_id |-> next_found_id
                    + Cardinality({p \in M : p.observation_id < o.observation_id}),
      query_id |-> qid,
      observation_id |-> o.observation_id,
      object |-> target] : o \in M}

\* the ephemeris and the search succeed with the observations M of the
\* source; the found rows are saved with the query's id and committed
search_save(M) ==
    /\ pc = "search"
    /\ ~no_observations(call.sources[i])
    /\ audit' = EphemerisReached
    /\ founds' = founds \cup add_found(call.target, M, Len(queries))
    /\ next_found_id' = next_found_id + Cardinality(M)
    /\ n' = Cardinality(M)
    /\ messages' = <<query_from_message(call.sources[i])>>
    /\ raised' = ""
    /\ pc' = "saved"
    /\ UNCHANGED <<observations, statistics, queries, params, call, i, count, cached_query, result>>

\* else: count += n; status finished; finally; commit
search_finish ==
    /\ pc = "saved"
    /\ LET qid == Len(queries)
       IN queries' = [queries EXCEPT
                         ![qid] = finally_execution_time([@ EXCEPT !.status = "finished"])]
    /\ Advance(count_add(count, n))
    /\ messages' = <<>>
    /\ raised' = ""
    /\ UNCHANGED <<observations, statistics, founds, next_found_id, params, audit>>

\* a stop of the process that takes the row of the running source with
\* it, as if the row had not been committed before the search
crash_uncommitted ==
    /\ pc \in {"copy", "search", "saved", "fixed"}
    /\ pc' = "idle"
    /\ i' = 0
    /\ count' = 0
    /\ cached_query' = None
    /\ n' = 0
    /\ result' = [kind |-> "crash", value |-> 0]
    /\ messages' = <<>>
    /\ raised' = ""
    /\ call' = Ended(call)
    /\ queries' = SubSeq(queries, 1, Len(queries) - 1)
    /\ audit' = SubSeq(audit, 1, Len(audit) - 1)
    /\ founds' = {f \in founds : f.query_id # Len(queries)}
    /\ UNCHANGED <<observations, statistics, next_found_id, params>>

\* the process stops while a source is being processed: what is committed
\* stays, the call never returns
crash ==
    /\ pc \in {"copy", "search", "saved", "fixed"}
    /\ pc' = "idle"
    /\ i' = 0
    /\ count' = 0
    /\ cached_query' = None
    /\ n' = 0
    /\ result' = [kind |-> "crash", value |-> 0]
    /\ messages' = <<>>
    /\ raised' = ""
    /\ call' = Ended(call)
    /\ UNCHANGED <<observations, statistics, store, params, audit>>


(***************************************************************************)
(* Catch._query_fixed_target: one row for the joined sources, a live       *)
(* search, no found rows.                                                  *)
(***************************************************************************)
\* a row that names the first of the sources only
new_fixed_query_first_source(target, job_id, srcs) ==
    [query |-> target,
     job_id |-> job_id,
     source |-> Join(<<srcs[1]>>),
     status |-> "in progress",
     uncertainty_ellipse |-> FALSE,
     padding |-> padding,
     start_date |-> IsoOrNone(start_date),
     stop_date |-> IsoOrNone(stop_date),
     intersection_type |-> IF padding = 0 THEN "None" ELSE "ImageIntersectsArea",
     execution_time |-> None]

\* CatchQuery(..., source=",".join(sources), status="in progress", ...)
new_fixed_query(target, job_id, srcs) ==
    [query |-> target,
     job_id |-> job_id,
     source |-> Join(srcs),
     status |-> "in progress",
     uncertainty_ellipse |-> FALSE,
     padding |-> padding,
     start_date |-> IsoOrNone(start_date),
     stop_date |-> IsoOrNone(stop_date),
     intersection_type |-> IF padding = 0 THEN "None" ELSE "ImageIntersectsArea",
     execution_time |-> None]

\* `cached` is an argument of query() that _query_fixed_target is not given
query_fixed_target(target, job_id, arg, cached) ==
    /\ pc = "idle"
    /\ valid_sources(resolve_sources(arg))
    /\ target \in FixedTargets
    /\ Len(queries) + 1 <= MaxQueries
    /\ Called("query", target, job_id, resolve_sources(arg), cached)
    /\ queries' = Append(queries, new_fixed_query(target, job_id, resolve_sources(arg)))
    /\ audit' = Append(audit, [path |-> "fresh", moving |-> FALSE,
                               ephemeris |-> FALSE, start |-> start_date,
                               stop |-> stop_date])
    /\ pc' = "fixed"
    /\ result' = [kind |-> "running", value |-> 0]
    /\ messages' = <<>>
    /\ raised' = ""
    /\ UNCHANGED <<observations, statistics, founds, next_found_id, params, locals>>

\* observations = [obs for obs in observations if obs.source in sources]
limit_to_sources(M, srcs) == {o \in M : \E k \in DOMAIN srcs : srcs[k] = o.source}

\* _get_fixed_target_observations returns: the else clause and finally
fixed_search_found(M) ==
    /\ pc = "fixed"
    /\ LET qid == Len(queries)
       IN queries' = [queries EXCEPT
                         ![qid] = finally_execution_time([@ EXCEPT !.status = "finished"])]
    /\ messages' = <<Message("info", "", "Query sources."),
                                 Message("info", "", "Caught observations.")>>
    /\ raised' = ""
    /\ result' = [kind |-> "observations", value |-> limit_to_sources(M, call.sources)]
    /\ pc' = "idle"
    /\ call' = Ended(call)
    /\ UNCHANGED <<observations, statistics, founds, next_found_id, params, locals, audit>>

\* the point or cap search raises: FindObjectError, a CatchException
fixed_search_error ==
    /\ pc = "fixed"
    /\ LET qid == Len(queries)
       IN queries' = [queries EXCEPT
                         ![qid] = finally_execution_time(
                                      [@ EXCEPT !.status = status_on_exception("FindObjectError")])]
    /\ messages' = <<Message("info", "", "Query sources."),
                                 message_on_exception("FindObjectError", "")>>
    /\ raised' = "FindObjectError"
    /\ result' = [kind |-> "observations", value |-> {}]
    /\ pc' = "idle"
    /\ call' = Ended(call)
    /\ UNCHANGED <<observations, statistics, founds, next_found_id, params, locals, audit>>

\* the lists a fixed-target search is asked with
FixedSourceArgs == {a \in SourceArgs : a.none \/ a.names = <<sources_keys[1]>>}

\* The job ids a caller passes: an id some earlier call used, or a new one.
\* Ids are opaque (UUIDs), so the new one is the least unused.
UsedJobs == {queries[id].job_id : id \in DOMAIN queries}

JobIds == {j \in Jobs : j \in UsedJobs \/ \A k \in Jobs \ UsedJobs : j <= k}

\* The calls that raise read neither the job id nor the cached flag before
\* they raise: one value of each stands for all.
AnyJob == CHOOSE j \in Jobs : TRUE

(***************************************************************************)
(* The specification.                                                      *)
(***************************************************************************)
\* the calls of query() and the steps of its handlers
NextLive ==
    \/ \E t \in MovingTargets \cup FixedTargets, a \in SourceArgs :
          query_unknown_source(t, AnyJob, a, TRUE)
    \/ \E t \in MovingTargets, a \in SourceArgs :
          query_date_range_error(t, AnyJob, a, TRUE)
    \/ \E t \in MovingTargets, j \in JobIds, a \in SourceArgs, c \in BOOLEAN :
          query_moving_target(t, j, a, c)
    \/ begin_source
    \/ copy_cached
    \/ search_no_data
    \/ search_ephemeris_error
    \/ search_find_error
    \/ search_add_found_error
    \/ \E e \in UnexpectedErrors : search_unexpected_error(e)
    \/ pc = "search" /\ \E M \in SUBSET SourceObs(call.sources[i]) : search_save(M)
    \/ search_finish
    \/ \E t \in FixedTargets, j \in JobIds, a \in FixedSourceArgs, c \in BOOLEAN :
          query_fixed_target(t, j, a, c)
    \/ \E M \in SUBSET observations : fixed_search_found(M)
    \/ fixed_search_error

\* ... and the stop of the process
Next == NextLive \/ crash

Spec == Init /\ [][Next]_vars

\* The handlers are sequential code: once query() is called, each of its
\* steps is taken when the store and the external services answer, by a
\* value or by an exception, and the process is not stopped.
SearchStep ==
    \/ search_no_data
    \/ search_ephemeris_error
    \/ search_find_error
    \/ search_add_found_error
    \/ \E e \in UnexpectedErrors : search_unexpected_error(e)
    \/ pc = "search" /\ \E M \in SUBSET SourceObs(call.sources[i]) : search_save(M)

FixedStep ==
    \/ \E M \in SUBSET observations : fixed_search_found(M)
    \/ fixed_search_error

LiveSpec ==
    /\ Init
    /\ [][NextLive]_vars
    /\ WF_vars(begin_source)
    /\ WF_vars(copy_cached)
    /\ WF_vars(SearchStep)
    /\ WF_vars(search_finish)
    /\ WF_vars(FixedStep)

(***************************************************************************)
(* The properties.                                                         *)
(***************************************************************************)
\* the finished moving-target rows stored for a request identical to the
\* current one: same target, source and parameters
IdenticalFinished(target, s) ==
    {a \in DOMAIN queries :
        /\ audit[a].moving
        /\ queries[a].status = "finished"
        /\ queries[a].query = target
        /\ queries[a].source = Join(<<s>>)
        /\ queries[a].uncertainty_ellipse = uncertainty_ellipse
        /\ queries[a].padding = padding
        /\ audit[a].start = start_date
        /\ audit[a].stop = stop_date}

\* C1: when a moving-target request is repeated with cached = TRUE after an
\* identical request (same target, source, parameters) has finished, the
\* source is served by the copy: neither the ephemeris nor the search is
\* invoked, the new row ends finished with a null execution_time, and its
\* found rows equal in content those of the earlier request.
C1_RepeatedQueryIsCopied ==
    [][ /\ (pc = "source" /\ call.cached
               /\ IdenticalFinished(call.target, call.sources[i]) # {})
           => pc' = "copy"
        /\ (pc = "copy" /\ result'.kind # "crash")
           => LET b == Len(queries)
                  a == SetMax(IdenticalFinished(call.target, call.sources[i]))
              IN /\ queries'[b].status = "finished"
                 /\ queries'[b].execution_time = None
                 /\ ~audit'[b].ephemeris
                 /\ ContentOf(b)' = ContentOf(a)
      ]_vars

\* C2: a query() whose list of sources holds a name that is not in the
\* registry raises before anything is written: no catch_query row, no found
\* row, no source searched, also for the valid names that precede it.
C2_UnknownSourceRaisesBeforeAnyWrite ==
    [][ (call'.op = "query"
            /\ \E k \in DOMAIN call'.sources : call'.sources[k] \notin KnownSources)
        => /\ result'.kind = "ValueError"
           /\ pc' = "idle"
           /\ queries' = queries
           /\ founds' = founds
           /\ audit' = audit
      ]_vars

\* C2, its case: a list with a valid name before the unknown one was
\* rejected, on a store that holds rows
C2_Witness ==
    /\ result.kind = "ValueError"
    /\ Len(call.sources) = 2
    /\ call.sources[1] \in KnownSources
    /\ call.sources[2] \notin KnownSources
    /\ Len(queries) > 0

Range(f) == {f[k] : k \in DOMAIN f}

\* the rows the last query() created, and the found rows of those of them
\* that ended finished
RowsOfCall == (call.base + 1) .. Len(queries)

MatchesOfCall ==
    {f \in founds : f.query_id \in RowsOfCall /\ queries[f.query_id].status = "finished"}

\* the domain errors of a fresh search: the ephemeris lookup, the search of
\* the observations, the saving of the matches
DomainErrors == {"EphemerisError", "FindObjectError", AddFoundObservationsError}

\* C3: in a moving-target query over several sources, a fresh search that
\* raises a domain error leaves the source's row errored and an error
\* message on the channel, is not raised to the caller, and the loop goes on
\* to the next source; the count query() returns is the number of matches
\* of the sources whose row ended finished, one terminal row per source.
C3_DomainErrorIsolatedPerSource ==
    /\ (raised \in DomainErrors /\ Len(queries) > 0 /\ audit[Len(queries)].moving)
       => LET q == Len(queries)
              k == q - call.base
          IN /\ queries[q].status = "errored"
             /\ \E m \in Range(messages) :
                   m.level = "error" /\ m.source = call.sources[k]
             /\ result.kind \in {"running", "count"}
             /\ IF k < Len(call.sources)
                THEN pc = "source" /\ i = k + 1 /\ result.kind = "running"
                ELSE pc = "idle" /\ result.kind = "count"
    /\ result.kind = "count"
       => /\ Len(queries) = call.base + Len(call.sources)
          /\ \A k \in DOMAIN call.sources :
                /\ queries[call.base + k].source = <<call.sources[k]>>
                /\ queries[call.base + k].status \in {"finished", "errored"}
          /\ result.value = Cardinality(MatchesOfCall)

\* C3, its case: the first of two sources raised a domain error and the
\* loop is at the second
C3_Witness ==
    /\ raised \in DomainErrors
    /\ pc = "source"
    /\ Len(call.sources) = 2
    /\ i = 2
    /\ queries[Len(queries)].status = "errored"

\* the source has no observation at all, or none in the requested window
NoCoverage(s) ==
    \/ SourceObs(s) = {}
    \/ start_date # None /\ \A o \in SourceObs(s) : o.mjd_stop < start_date
    \/ stop_date # None /\ \A o \in SourceObs(s) : stop_date < o.mjd_start

StartAfterStop == start_date # None /\ stop_date # None /\ start_date > stop_date

EarlierAttempts(b) ==
    {a \in 1 .. (b - 1) :
        /\ audit[a].moving
        /\ queries[a].query = queries[b].query
        /\ queries[a].source = queries[b].source
        /\ queries[a].uncertainty_ellipse = queries[b].uncertainty_ellipse
        /\ queries[a].padding = queries[b].padding
        /\ queries[a].start_date = queries[b].start_date
        /\ queries[a].stop_date = queries[b].stop_date}

\* C6: the cache lookup never returns a row that is in progress or errored;
\* a source whose earlier attempts all are in progress or errored is
\* searched afresh, also when the query asks for cached results.
C6_CacheReturnsFinishedOnly ==
    /\ \A t \in MovingTargets, s \in KnownSources :
          find_catch_query(t, s) # None
          => queries[find_catch_query(t, s)].status = "finished"
    /\ pc \in {"copy", "search"}
       => LET b == Len(queries)
          IN (\A a \in EarlierAttempts(b) :
                 queries[a].status \in {"in progress", "errored"})
             => /\ pc = "search"
                /\ audit[b].path = "fresh"
                /\ cached_query = None

\* C6, its case: cached results are asked for, the only earlier attempts
\* are errored or in progress, and the source is at its fresh search
C6_Witness ==
    /\ pc = "search"
    /\ call.cached
    /\ EarlierAttempts(Len(queries)) # {}
    /\ \A a \in EarlierAttempts(Len(queries)) :
          queries[a].status \in {"in progress", "errored"}

\* C7 as stated: in every committed state, a row's execution_time is null
\* exactly when the row was produced by the cache copy.
C7_NullExecutionTimeIffCopied ==
    \A q \in DOMAIN queries :
       (queries[q].execution_time = None) <=> (audit[q].path = "copy")

\* C7: a row that is finished or errored has a null execution_time exactly
\* when it was produced by the cache copy, so every fresh search that
\* ended, moving or fixed, finished or errored, has a time; a row that is
\* in progress has none, whichever path it is on.
C7_TerminalExecutionTimeIffFresh ==
    \A q \in DOMAIN queries :
       IF queries[q].status \in {"finished", "errored"}
       THEN (queries[q].execution_time = None) <=> (audit[q].path = "copy")
       ELSE queries[q].status = "in progress" /\ queries[q].execution_time = None

\* C7, its case: a fresh row that ended with its time, and its copy
C7_Witness ==
    \E a, b \in DOMAIN queries :
       /\ audit[a].path = "fresh" /\ queries[a].status = "finished"
       /\ queries[a].execution_time # None
       /\ audit[b].path = "copy" /\ queries[b].status = "finished"
       /\ queries[b].execution_time = None

\* the stored search parameters of a row
StoredParameters(q) ==
    <<q.query, q.job_id, q.source, q.uncertainty_ellipse, q.padding,
      q.start_date, q.stop_date, q.intersection_type>>

\* C8: a row is created in progress; its status changes only from in
\* progress, to finished or errored; a finished or errored row is never
\* changed again, and no row's stored parameters change; when query()
\* returns, every row it created is finished or errored.
C8_StatusLifecycle ==
    [][ /\ Len(queries') >= Len(queries)
        /\ \A q \in DOMAIN queries' \ DOMAIN queries :
              /\ queries'[q].status = "in progress"
              /\ queries'[q].execution_time = None
        /\ \A q \in DOMAIN queries :
              /\ StoredParameters(queries'[q]) = StoredParameters(queries[q])
              /\ queries[q].status \in {"finished", "errored"}
                 => queries'[q] = queries[q]
              /\ queries'[q].status # queries[q].status
                 => /\ queries[q].status = "in progress"
                    /\ queries'[q].status \in {"finished", "errored"}
        /\ result'.kind \in {"count", "observations"}
           => \A q \in (call'.base + 1) .. Len(queries') :
                 queries'[q].status \in {"finished", "errored"}
      ]_vars

\* C8, its case: a finished row, and a later query of another job that has
\* run to its end
C8_Witness ==
    /\ Len(queries) = 2
    /\ queries[1].status = "finished"
    /\ queries[2].status \in {"finished", "errored"}
    /\ queries[1].job_id # queries[2].job_id
    /\ result.kind = "count"

\* the valid lists of sources is_query_cached is asked with
KnownLists == {l \in SourceLists : \A k \in DOMAIN l : l[k] \in KnownSources}

\* C9: is_query_cached returns FALSE when some requested source has no
\* usable finished row, and TRUE only when every requested source has one,
\* whatever the order of the sources.
C9_CachedOnlyIfEverySourceIs ==
    \A t \in MovingTargets, l \in KnownLists :
       is_query_cached(t, l)
          = (\A k \in DOMAIN l : find_catch_query(t, l[k]) # None)

\* C10: after a query() for a job id that no row had before has returned
\* the count n, caught(job_id) holds exactly n pairs: the found rows owned
\* by the rows of this job, each with its observation, none of a source
\* that ended errored or without data, none of another job.
C10_CaughtHoldsTheCount ==
    (result.kind = "count" /\ call.new_job)
    => LET C == caught(call.job_id)
       IN /\ Cardinality(C) = result.value
          /\ {p[1] : p \in C} = {f \in founds : f.query_id \in RowsOfCall}
          /\ queries_from_job_id(call.job_id) = RowsOfCall
          /\ \A p \in C :
                /\ p[2].observation_id = p[1].observation_id
                /\ queries[p[1].query_id].job_id = call.job_id
                /\ queries[p[1].query_id].status = "finished"

\* C10, its case: a new job over two sources has returned, one source with
\* matches, the other finished without data, while the store holds no
\* other row
C10_Witness ==
    /\ result.kind = "count"
    /\ call.new_job
    /\ result.value > 0
    /\ Len(call.sources) = 2
    /\ \E q \in RowsOfCall :
          queries[q].status = "finished" /\ FoundsOf(q) = {} /\ ~audit[q].ephemeris
    /\ \E q \in RowsOfCall : FoundsOf(q) # {}

(***************************************************************************)
(* The cache under changing search parameters.  The attributes padding,    *)
(* start_date and stop_date of the Catch object are set between queries    *)
(* of one source, whose observations cover the times CoverStart to         *)
(* CoverStop.  Paddings are in units of 1e-4 arcmin.                        *)
(***************************************************************************)
CacheSource == sources_keys[1]

CacheObs ==
    {[observation_id |-> 1, source |-> CacheSource, mjd_start |-> 2, mjd_stop |-> 6]}

Paddings == {0, 10000, 10101}

\* before the coverage, at its start, strictly inside
StartDates == {None, 0, 2, 4}

\* strictly inside, at the end of the coverage, after it
StopDates == {None, 4, 6, 8}

CacheSettings ==
    {[padding |-> p, start_date |-> None, stop_date |-> None] : p \in Paddings}
    \cup {[padding |-> 0, start_date |-> sd, stop_date |-> None] : sd \in StartDates}
    \cup {[padding |-> 0, start_date |-> None, stop_date |-> ed] : ed \in StopDates}

InitCache ==
    /\ observations = CacheObs
    /\ queries = <<>>
    /\ founds = {}
    /\ next_found_id = 1
    /\ uncertainty_ellipse = FALSE
    /\ \E st \in CacheSettings :
          /\ padding = st.padding
          /\ start_date = st.start_date
          /\ stop_date = st.stop_date
    /\ pc = "idle"
    /\ call = NoCall("none")
    /\ i = 0
    /\ count = 0
    /\ cached_query = None
    /\ n = 0
    /\ messages = <<>>
    /\ raised = ""
    /\ result = NoResult
    /\ audit = <<>>
    /\ survey_statistics = {}
    /\ now = 0
    /\ sessions = NoSessions

\* catch.padding = ...; catch.start_date = ...; catch.stop_date = ...
set_parameters(st) ==
    /\ pc = "idle"
    /\ <<padding, start_date, stop_date>> # <<st.padding, st.start_date, st.stop_date>>
    /\ padding' = st.padding
    /\ start_date' = st.start_date
    /\ stop_date' = st.stop_date
    /\ call' = NoCall("set_parameters")
    /\ result' = NoResult
    /\ messages' = <<>>
    /\ raised' = ""
    /\ UNCHANGED <<observations, statistics, store, uncertainty_ellipse, pc, locals, audit>>

NextCache ==
    \/ \E st \in CacheSettings : set_parameters(st)
    \/ \E t \in MovingTargets, j \in JobIds :
          query_moving_target(t, j, [none |-> FALSE, names |-> <<CacheSource>>], TRUE)
    \/ begin_source
    \/ copy_cached
    \/ pc = "search" /\ \E M \in SUBSET SourceObs(call.sources[i]) : search_save(M)
    \/ search_finish

CacheSpec == InitCache /\ [][NextCache]_vars

\* the finished moving-target rows that differ from the request for target
\* t at source s in nothing but, possibly, the padding
SameButPadding(t, s) ==
    {a \in DOMAIN queries :
        /\ audit[a].moving
        /\ queries[a].status = "finished"
        /\ queries[a].query = t
        /\ queries[a].source = Join(<<s>>)
        /\ queries[a].uncertainty_ellipse = uncertainty_ellipse
        /\ queries[a].start_date = find_start_date(s)
        /\ queries[a].stop_date = find_stop_date(s)}

\* two paddings differ by at most 1% of the larger one
WithinOnePercent(p1, p2) ==
    LET hi == IF p1 >= p2 THEN p1 ELSE p2
        lo == IF p1 >= p2 THEN p2 ELSE p1
    IN 100 * (hi - lo) <= hi

\* C11 as stated: a finished row is a cache match for a request that
\* differs in the padding only exactly when the two paddings differ by at
\* most 1%, whichever of the two is the stored one.
C11_PaddingToleranceSymmetric ==
    \A t \in MovingTargets :
       \A a \in SameButPadding(t, CacheSource) :
          (a \in find_candidates(t, CacheSource))
             <=> WithinOnePercent(queries[a].padding, padding)

\* C11: a finished row is a cache match for a request that differs in the
\* padding only exactly when the stored padding lies between 99% and 101%
\* of the requested one; the test is relative to the requested value, and
\* padding 0 matches padding 0 only.
C11_PaddingWithinOnePercentOfRequest ==
    \A t \in MovingTargets :
       \A a \in SameButPadding(t, CacheSource) :
          /\ (a \in find_candidates(t, CacheSource))
                <=> (/\ 99 * padding <= 100 * queries[a].padding
                     /\ 100 * queries[a].padding <= 101 * padding)
          /\ (padding = 0 /\ a \in find_candidates(t, CacheSource))
                => queries[a].padding = 0
          /\ (pc = "copy" /\ a = cached_query)
                => /\ 99 * padding <= 100 * queries[a].padding
                   /\ 100 * queries[a].padding <= 101 * padding

\* C11, its case: a row stored with padding 10000 is copied for a request
\* with padding 10101
C11_Witness ==
    /\ pc = "copy"
    /\ padding = 10101
    /\ queries[cached_query].padding = 10000

\* the times of the first and of the last observation of a source
EarliestObs(s) == SetMin({o.mjd_start : o \in SourceObs(s)})

LatestObs(s) == SetMax({o.mjd_stop : o \in SourceObs(s)})

\* of two values, one is null and the other is a date for which P holds
NullAgainst(d1, d2, P(_)) ==
    \/ d1 = None /\ d2 # None /\ P(d2)
    \/ d2 = None /\ d1 # None /\ P(d1)

\* C12: for a source with observations, the cache lookup with a start_date
\* at or before the first observation returns the row the lookup with a
\* null start_date returns, and likewise a stop_date at or after the last
\* observation and a null stop_date; a bound strictly inside the coverage
\* is compared, as it is, with the stored one.
C12_BoundsBeyondCoverageLookUpAsNull ==
    [][ \A t \in MovingTargets :
          LET s == CacheSource
              AtOrBefore(d) == d <= EarliestObs(s)
              AtOrAfter(d) == d >= LatestObs(s)
          IN /\ (/\ queries' = queries
                 /\ padding' = padding
                 /\ stop_date' = stop_date
                 /\ NullAgainst(start_date, start_date', AtOrBefore))
                => find_catch_query(t, s)' = find_catch_query(t, s)
             /\ (/\ queries' = queries
                 /\ padding' = padding
                 /\ start_date' = start_date
                 /\ NullAgainst(stop_date, stop_date', AtOrAfter))
                => find_catch_query(t, s)' = find_catch_query(t, s)
             /\ (start_date # None /\ start_date > EarliestObs(s)
                    /\ start_date < LatestObs(s))
                => \A a \in find_candidates(t, s) :
                      queries[a].start_date = Iso(start_date)
             /\ (stop_date # None /\ stop_date < LatestObs(s)
                    /\ stop_date > EarliestObs(s))
                => \A a \in find_candidates(t, s) :
                      queries[a].stop_date = Iso(stop_date)
      ]_vars

\* C12, its case: a request with a start_date at or before the first
\* observation is served by the copy of a row stored with a null start_date
C12_Witness ==
    /\ pc = "copy"
    /\ start_date # None
    /\ start_date <= EarliestObs(call.sources[i])
    /\ queries[cached_query].start_date = None

\* the requested bounds, null when they are at or beyond the coverage of s
NormalStart(d, s) == IF d = None \/ d <= EarliestObs(s) THEN None ELSE Iso(d)

NormalStop(d, s) == IF d = None \/ d >= LatestObs(s) THEN None ELSE Iso(d)

\* C13: the cache key is normalized on the stored side as on the requested
\* side: a finished row of a fresh search is a match for a request with the
\* same target, source, uncertainty_ellipse and padding exactly when the
\* bounds it was requested with and the bounds of the request are equal
\* once those at or beyond the coverage are taken as null, so that a row
\* requested with a start_date at or before the first observation serves a
\* request with a null start_date, and the other way round.
C13_StoredBoundsAreNormalized ==
    \A t \in MovingTargets :
       LET s == CacheSource
       IN \A a \in DOMAIN queries :
             (/\ audit[a].moving
              /\ queries[a].status = "finished"
              /\ queries[a].query = t
              /\ queries[a].source = Join(<<s>>)
              /\ queries[a].uncertainty_ellipse = uncertainty_ellipse
              /\ queries[a].padding = padding)
             => ((a \in find_candidates(t, s))
                    <=> (/\ NormalStart(audit[a].start, s) = NormalStart(start_date, s)
                         /\ NormalStop(audit[a].stop, s) = NormalStop(stop_date, s)))

\* the rows of the job of the running query() other than the row of the
\* source that is being processed
OtherRowsOfJob ==
    {q \in queries_from_job_id(call.job_id) :
        pc = "source" \/ q # Len(queries)}

\* C14: while query() processes a source, the rows and the found rows
\* committed for the other sources of the job stay as they are, whatever
\* happens at this source: copy, fresh search, no data, domain error,
\* unexpected error or a stop of the process.
C14_EarlierSourcesUntouched ==
    [][ (pc \in {"source", "copy", "search", "saved"})
        => \A q \in OtherRowsOfJob :
              /\ q \in DOMAIN queries'
              /\ queries'[q] = queries[q]
              /\ {f \in founds' : f.query_id = q} = {f \in founds : f.query_id = q}
      ]_vars

\* C14, its case: the second source of a job ended errored after the first
\* had finished with matches
C14_Witness ==
    /\ result.kind = "count"
    /\ Len(call.sources) = 2
    /\ queries[call.base + 1].status = "finished"
    /\ FoundsOf(call.base + 1) # {}
    /\ queries[call.base + 2].status = "errored"
    /\ result.value = Cardinality(FoundsOf(call.base + 1))

\* C15: the copy of cached results adds, for each found row of the cached
\* query, one found row owned by the new query, with a found_id no row has
\* had and the content of the row it copies; the cached query and its
\* found rows stay as they are; and when the cached query is deleted
\* afterwards, with its found rows, the copies are all still there.
C15_CopiesAreNewRows ==
    [][ (pc = "copy" /\ result'.kind # "crash")
        => LET b == Len(queries)
               cq == cached_query
               new == founds' \ founds
               after == delete_cascade(founds', cq)
           IN /\ \A f \in new :
                    /\ f.query_id = b
                    /\ f.found_id \notin {g.found_id : g \in founds}
                    /\ \A g \in new : g.found_id = f.found_id => g = f
              /\ Cardinality(new) = Cardinality(FoundsOf(cq))
              /\ {found_attributes(f) : f \in new} = ContentOf(cq)
              /\ founds \subseteq founds'
              /\ queries'[cq] = queries[cq]
              /\ {f \in after : f.query_id = b} = new
              /\ {f \in after : f.query_id = cq} = {}
      ]_vars

\* C15, its case: a query that ended as the copy of a cached query with
\* found rows
C15_Witness ==
    \E b \in DOMAIN queries :
       /\ audit[b].path = "copy"
       /\ queries[b].status = "finished"
       /\ FoundsOf(b) # {}
       /\ \E a \in DOMAIN queries : a < b /\ ContentOf(a) = ContentOf(b)

\* C16: a fixed-target query() creates one row, whose source is the list of
\* the requested names joined, and no found row; whatever the cached flag
\* and the finished rows of the same target, it goes to the live search;
\* when it returns, the row is finished or errored with an execution_time,
\* and it is the only row of a job id that was new.
C16_FixedTargetIsOneLiveSearch ==
    [][ (call'.op = "query" /\ call'.target \in FixedTargets)
        => LET b == call'.base + 1
           IN /\ Len(queries') = b
              /\ queries'[b].query = call'.target
              /\ queries'[b].job_id = call'.job_id
              /\ queries'[b].source = call'.sources
              /\ ~audit'[b].moving
              /\ audit'[b].path = "fresh"
              /\ founds' = founds
              /\ call'.new_job
                 => {q \in DOMAIN queries' : queries'[q].job_id = call'.job_id} = {b}
              /\ pc = "idle" => pc' = "fixed" /\ queries'[b].status = "in progress"
              /\ result'.kind = "observations"
                 => /\ pc = "fixed"
                    /\ queries'[b].status \in {"finished", "errored"}
                    /\ queries'[b].execution_time # None
      ]_vars

\* C16, its case: a fixed-target query for two sources, asked with cached
\* results, is at its live search although a finished row of the same
\* target exists
C16_Witness ==
    /\ pc = "fixed"
    /\ call.target \in FixedTargets
    /\ call.cached
    /\ Len(call.sources) = 2
    /\ \E a \in DOMAIN queries :
          /\ a < Len(queries)
          /\ queries[a].status = "finished"
          /\ queries[a].query = call.target
          /\ queries[a].source = call.sources

\* the text published for a failure that is no domain error
GenericErrorText == "Unexpected error.  Contact us with this issue and your job ID."

\* C17: when the fresh search of a source raises an exception that is no
\* domain error, what is published does not depend on the exception: one
\* error message with the fixed generic text, after the message that
\* announces the search; the row ends errored and the loop goes on to the
\* sources that remain.
C17_UnexpectedErrorIsPublishedGeneric ==
    (raised # "" /\ raised \notin CatchExceptions \cup {AddFoundObservationsError}
        /\ Len(queries) > 0 /\ audit[Len(queries)].moving)
    => LET q == Len(queries)
           k == q - call.base
           s == call.sources[k]
       IN /\ messages = <<query_from_message(s), Message("error", s, GenericErrorText)>>
          /\ \A m \in Range(messages) : m.text # raised
          /\ queries[q].status = "errored"
          /\ queries[q].execution_time # None
          /\ IF k < Len(call.sources)
             THEN pc = "source" /\ i = k + 1 /\ result.kind = "running"
             ELSE pc = "idle" /\ result.kind = "count"

\* C17, its case: the first of two sources failed with an exception that
\* is no domain error, and the loop is at the second
C17_Witness ==
    /\ raised \in UnexpectedErrors
    /\ pc = "source"
    /\ i = 2
    /\ Len(call.sources) = 2
    /\ queries[Len(queries)].status = "errored"

\* C18: when the process is not stopped and every call of the ephemeris and
\* of the search returns or raises, every row query() creates, for a moving
\* or a fixed target, comes to finished or errored, a fresh one with its
\* execution_time, and no row is in progress once query() has returned or
\* raised.
C18_EveryQueryEnds ==
    /\ [](pc = "idle"
            => \A q \in DOMAIN queries :
                  /\ queries[q].status \in {"finished", "errored"}
                  /\ audit[q].path = "fresh" => queries[q].execution_time # None)
    /\ \A q \in 1 .. MaxQueries :
          (q \in DOMAIN queries)
             ~> (q \in DOMAIN queries /\ queries[q].status \in {"finished", "errored"})

\* C18, its case: a fixed-target query and a moving-target query have
\* returned, both with their row errored, the second after an exception
\* that is no domain error
C18_Witness ==
    /\ pc = "idle"
    /\ Len(queries) = 2
    /\ ~audit[1].moving /\ queries[1].status = "errored"
    /\ audit[2].moving /\ queries[2].status = "errored"
    /\ raised \in UnexpectedErrors

(***************************************************************************)
(* Catch.update_statistics: the survey_statistics table, one row per       *)
(* source and the row named "All".  The observation table grows by         *)
(* add_observations while the statistics are updated source by source.     *)
(***************************************************************************)
MaxNow == 3          \* the last reading of the clock

\* the observations that may be added: two of each source
StatsObs ==
    {[observation_id |-> 1, source |-> sources_keys[1], mjd_start |-> 2, mjd_stop |-> 4],
     [observation_id |-> 2, source |-> sources_keys[1], mjd_start |-> 6, mjd_stop |-> 8],
     [observation_id |-> 3, source |-> sources_keys[2], mjd_start |-> 0, mjd_stop |-> 2],
     [observation_id |-> 4, source |-> sources_keys[2], mjd_start |-> 4, mjd_stop |-> 10]}

\* the `source` argument: None, or a name
StatisticsArgs ==
    {[none |-> TRUE, name |-> ""]}
        \cup {[none |-> FALSE, name |-> s] : s \in KnownSources \cup {"unknown"}}

\* source.__data_source_name__
data_source_name(s) ==
    CASE s = sources_keys[1] -> "NEAT Maui GEODSS"
      [] s = sources_keys[2] -> "NEAT Palomar Tricam"

\* the list that is always the whole registry
statistics_sources_all(arg) == sources_keys

\* sources = list(self.sources.values()) when source is None, else
\* [self.sources.get(source, source)]
statistics_sources(arg) == IF arg.none THEN sources_keys ELSE <<arg.name>>

\* func.min, func.max and func.sum skip NULL, and are NULL over no value
sql_min(S) == IF S \ {None} = {} THEN None ELSE SetMin(S \ {None})

sql_max(S) == IF S \ {None} = {} THEN None ELSE SetMax(S \ {None})

RECURSIVE sql_sum_count(_)
sql_sum_count(rows) ==
    IF {r \in rows : r.count # None} = {} THEN None
    ELSE LET r == CHOOSE x \in rows : x.count # None
             rest == sql_sum_count(rows \ {r})
         IN r.count + (IF rest = None THEN 0 ELSE rest)

\* session.merge(stats): a row without primary key is inserted with the
\* next value of the serial, a row with one replaces the row of that key
merge(rows, stats) ==
    IF stats.stats_id = None
    THEN rows \cup {[stats EXCEPT !.stats_id = Cardinality(rows) + 1]}
    ELSE {r \in rows : r.stats_id # stats.stats_id} \cup {stats}

\* query(SurveyStats).filter(SurveyStats.source == table_name).one(), or
\* the new row of the except clause
fetch_stats(rows, s) ==
    IF \E r \in rows : r.source = s
    THEN CHOOSE r \in rows : r.source = s
    ELSE SurveyStats(s, data_source_name(s))

\* a row that is made at every update, never fetched
update_statistics_for_source_insert(rows, s, t) ==
    merge(rows, [SurveyStats(s, data_source_name(s)) EXCEPT
                    !.count = Cardinality(SourceObs(s)), !.updated = Iso(t)])

\* _update_statistics_for_source at the time t: the row of the source is
\* fetched or made, count is the size of the source's table, the dates are
\* set when there is an observation, updated is the time as text
update_statistics_for_source(rows, s, t) ==
    LET cnt == Cardinality(SourceObs(s))
        stats == fetch_stats(rows, s)
    IN merge(rows, [stats EXCEPT
                       !.count = cnt,
                       !.start_date = IF cnt > 0 THEN Iso(mjd_survey_start(s)) ELSE @,
                       !.stop_date = IF cnt > 0 THEN Iso(mjd_survey_stop(s)) ELSE @,
                       !.updated = Iso(t)])

\* a summary over every row of the table
all_filter_none(rows) == rows

\* .filter(SurveyStats.name != "All")
all_filter(rows) == {r \in rows : r.name # "All"}

\* _update_statistics_for_all: the row named "All" is fetched or made and
\* holds the sum, the minimum and the maxima over the other rows
update_statistics_for_all(rows) ==
    LET others == all_filter(rows)
        stats == IF \E r \in rows : r.name = "All"
                 THEN CHOOSE r \in rows : r.name = "All"
                 ELSE SurveyStats("", "All")
    IN merge(rows, [stats EXCEPT
                       !.count = sql_sum_count(others),
                       !.start_date = sql_min({r.start_date : r \in others}),
                       !.stop_date = sql_max({r.stop_date : r \in others}),
                       !.updated = sql_max({r.updated : r \in others})])

\* for _source in sources: self._update_statistics_for_source(_source),
\* the k-th at the time ts[k]
RECURSIVE update_statistics_loop(_, _, _)
update_statistics_loop(rows, srcs, ts) ==
    IF srcs = <<>> THEN rows
    ELSE update_statistics_loop(update_statistics_for_source(rows, Head(srcs), Head(ts)),
                                Tail(srcs), Tail(ts))

\* the clock read once for each source, never running backwards
ClockReadings(k) ==
    {ts \in [1 .. k -> now .. MaxNow] : \A a, b \in 1 .. k : a <= b => ts[a] <= ts[b]}

InitStats ==
    /\ observations \in SUBSET {o \in StatsObs : o.observation_id \in {1, 3}}
    /\ queries = <<>>
    /\ founds = {}
    /\ next_found_id = 1
    /\ uncertainty_ellipse = FALSE
    /\ padding = 0
    /\ start_date = None
    /\ stop_date = None
    /\ pc = "idle"
    /\ call = NoCall("none")
    /\ i = 0
    /\ count = 0
    /\ cached_query = None
    /\ n = 0
    /\ messages = <<>>
    /\ raised = ""
    /\ result = NoResult
    /\ audit = <<>>
    /\ survey_statistics = {}
    /\ now = 0
    /\ sessions = NoSessions

\* add_observations([obs])
add_observations(obs) ==
    /\ pc = "idle"
    /\ obs \notin observations
    /\ observations' = observations \cup {obs}
    /\ call' = NoCall("add_observations")
    /\ result' = NoResult
    /\ messages' = <<>>
    /\ raised' = ""
    /\ UNCHANGED <<statistics, store, params, pc, locals, audit>>

\* an observation is deleted from the observation table; ondelete="CASCADE"
\* removes its row of the source's table
delete_observations(obs) ==
    /\ pc = "idle"
    /\ obs \in observations
    /\ observations' = observations \ {obs}
    /\ call' = NoCall("delete_observations")
    /\ result' = NoResult
    /\ messages' = <<>>
    /\ raised' = ""
    /\ UNCHANGED <<statistics, store, params, pc, locals, audit>>

\* update_statistics(source): the rows of the listed sources, then the row
\* "All", then the commit.  The call records its argument, no name for
\* None, and the number of rows the table had when it began.
update_statistics(arg) ==
    /\ pc = "idle"
    /\ valid_sources(statistics_sources(arg))
    /\ \E ts \in ClockReadings(Len(statistics_sources(arg))) :
          /\ survey_statistics' =
                update_statistics_for_all(
                    update_statistics_loop(survey_statistics, statistics_sources(arg), ts))
          /\ now' = ts[Len(ts)]
    /\ call' = [NoCall("update_statistics") EXCEPT
                   !.sources = IF arg.none THEN <<>> ELSE <<arg.name>>,
                   !.base = Cardinality(survey_statistics)]
    /\ result' = NoResult
    /\ messages' = <<>>
    /\ raised' = ""
    /\ UNCHANGED <<observations, sessions, store, params, pc, locals, audit>>

\* a name that is not a key of self.sources is used as if it were the
\* source: source.observation_id raises AttributeError, nothing is written
update_statistics_unknown(arg) ==
    /\ pc = "idle"
    /\ ~valid_sources(statistics_sources(arg))
    /\ Raising("update_statistics", "", statistics_sources(arg))
    /\ result' = [kind |-> "AttributeError", value |-> 0]
    /\ messages' = <<>>
    /\ raised' = ""
    /\ UNCHANGED <<observations, statistics, store, params, pc, locals, audit>>

NextStats ==
    \/ \E obs \in StatsObs : add_observations(obs)
    \/ \E obs \in StatsObs : delete_observations(obs)
    \/ \E arg \in StatisticsArgs : update_statistics(arg)
    \/ \E arg \in StatisticsArgs : update_statistics_unknown(arg)

StatsSpec == InitStats /\ [][NextStats]_vars

\* the stored rows of the source s: none, or one
StoredRow(rows, s) == {r \in rows : r.source = s}

\* C19: the row of a source changes, in count, dates or time of update,
\* only in a call of update_statistics for that source or for all of them:
\* a call for another source leaves it as it was, whatever was added to the
\* observations of the source since.
C19_OtherSourcesRowsUnchanged ==
    [][\A y \in KnownSources :
          StoredRow(survey_statistics, y) # StoredRow(survey_statistics', y)
             => /\ call'.op = "update_statistics"
                /\ call'.sources \in {<<>>, <<y>>}]_vars

\* C19, its case: update_statistics has run for the second source alone
\* after an observation was added to the first, whose row still holds the
\* earlier count
C19_Witness ==
    /\ call.op = "update_statistics"
    /\ call.sources = <<sources_keys[2]>>
    /\ Cardinality(SourceObs(sources_keys[1])) = 2
    /\ \E x \in StoredRow(survey_statistics, sources_keys[1]) :
          /\ x.count = 1
          /\ \E y \in StoredRow(survey_statistics, sources_keys[2]) : x.updated < y.updated

\* the stored rows of the sources
PerSourceRows == {r \in survey_statistics : r.name # "All"}

RECURSIVE TotalCount(_)
TotalCount(rows) ==
    IF rows = {} THEN 0
    ELSE LET r == CHOOSE x \in rows : TRUE IN r.count + TotalCount(rows \ {r})

\* C20: once update_statistics has run there is one row named "All", and
\* its count is the sum of the stored counts of the sources, its
\* start_date their earliest, its stop_date their latest, its updated
\* their latest time of update: the stored rows, not the observations.
C20_AllRowSummarisesStoredRows ==
    survey_statistics # {}
       => /\ Cardinality(survey_statistics \ PerSourceRows) = 1
          /\ \A a \in survey_statistics \ PerSourceRows :
                /\ a.count = TotalCount(PerSourceRows)
                /\ a.start_date = sql_min({r.start_date : r \in PerSourceRows})
                /\ a.stop_date = sql_max({r.stop_date : r \in PerSourceRows})
                /\ a.updated = SetMax({r.updated : r \in PerSourceRows})

\* C20, its case: both sources have a row, updated at different times, the
\* first one behind its observations, and the row "All" holds the stored
\* sum, not the number of observations
C20_Witness ==
    /\ call.op = "update_statistics"
    /\ Cardinality(PerSourceRows) = 2
    /\ \E a \in survey_statistics \ PerSourceRows :
          /\ a.count = 2
          /\ a.count < Cardinality(observations)
          /\ a.start_date # None
          /\ \E r \in PerSourceRows : r.updated < a.updated
          /\ \E r \in PerSourceRows : r.start_date # None /\ a.start_date < r.start_date

\* the rows without their time of update
WithoutUpdated(rows) ==
    {[source |-> r.source, name |-> r.name, count |-> r.count,
      start_date |-> r.start_date, stop_date |-> r.stop_date] : r \in rows}

\* C21: update_statistics run again with the same argument right after
\* update_statistics, nothing added to the observations in between, leaves
\* the same rows, none added and none removed, with the same source, name,
\* count, start_date and stop_date: only updated may differ.
C21_SecondUpdateChangesOnlyUpdated ==
    [][(/\ call.op = "update_statistics"
        /\ call'.op = "update_statistics"
        /\ call'.sources = call.sources)
          => /\ observations' = observations
             /\ Cardinality(survey_statistics') = Cardinality(survey_statistics)
             /\ WithoutUpdated(survey_statistics') = WithoutUpdated(survey_statistics)]_vars

\* C21, its case: update_statistics for all sources has run on a table
\* that held every row already, at a later time than the rows had, and the
\* rows hold the counts of the observations
C21_Witness ==
    /\ call.op = "update_statistics"
    /\ call.sources = <<>>
    /\ call.base = Len(sources_keys) + 1
    /\ Cardinality(survey_statistics) = Len(sources_keys) + 1
    /\ now > 1
    /\ observations # {}
    /\ \A r \in PerSourceRows :
          r.updated = Iso(now) /\ r.count = Cardinality(SourceObs(r.source))

(***************************************************************************)
(* update_statistics called by several processes, each with its own        *)
(* session: the row of the source is fetched, the new values are computed, *)
(* and the flush and the commit come later, after what the other           *)
(* processes did in between.  survey_statistics holds the committed rows.  *)
(***************************************************************************)
\* the flush of the session: a new row is inserted; for a fetched row an
\* UPDATE by primary key sets the columns whose value the session changed
flush(rows, loaded, stats) ==
    IF loaded.stats_id = None THEN merge(rows, stats)
    ELSE LET row == CHOOSE r \in rows : r.stats_id = loaded.stats_id
         IN merge(rows,
                  [row EXCEPT
                     !.count = IF stats.count # loaded.count THEN stats.count ELSE @,
                     !.start_date = IF stats.start_date # loaded.start_date
                                    THEN stats.start_date ELSE @,
                     !.stop_date = IF stats.stop_date # loaded.stop_date
                                   THEN stats.stop_date ELSE @,
                     !.updated = IF stats.updated # loaded.updated THEN stats.updated ELSE @])

\* _update_statistics_for_source up to the fetch of the row: the count and
\* the dates are read from the observation table, the row from the
\* committed table
begin_update(p, s) ==
    /\ sessions[p].pc # "fetched"
    /\ Cardinality({r \in survey_statistics : r.source = s}) <= 1
    /\ sessions' = [sessions EXCEPT ![p] =
                       [pc |-> "fetched", source |-> s,
                        stats |-> fetch_stats(survey_statistics, s),
                        count |-> Cardinality(SourceObs(s)),
                        start_date |-> mjd_survey_start(s),
                        stop_date |-> mjd_survey_stop(s)]]
    /\ UNCHANGED <<observations, survey_statistics, now, store, params, pc, call, locals,
                   messages, raised, result, audit>>

\* .one() on more than one row of the source: MultipleResultsFound
begin_update_multiple(p, s) ==
    /\ sessions[p].pc # "fetched"
    /\ Cardinality({r \in survey_statistics : r.source = s}) > 1
    /\ sessions' = [sessions EXCEPT ![p] = [NoSession EXCEPT !.pc = "raised", !.source = s]]
    /\ UNCHANGED <<observations, survey_statistics, now, store, params, pc, call, locals,
                   messages, raised, result, audit>>

\* the rest of update_statistics: the values are set on the row, the row
\* is merged and flushed, the row "All" is rewritten, and all is committed
finish_update(p) ==
    /\ sessions[p].pc = "fetched"
    /\ \E t \in now .. MaxNow :
          LET ses == sessions[p]
              stats == [ses.stats EXCEPT
                          !.count = ses.count,
                          !.start_date = IF ses.count > 0 THEN Iso(ses.start_date) ELSE @,
                          !.stop_date = IF ses.count > 0 THEN Iso(ses.stop_date) ELSE @,
                          !.updated = Iso(t)]
          IN /\ survey_statistics' =
                   update_statistics_for_all(flush(survey_statistics, ses.stats, stats))
             /\ now' = t
    /\ sessions' = [sessions EXCEPT ![p] = [NoSession EXCEPT !.pc = "done", !.source = sessions[p].source]]
    /\ UNCHANGED <<observations, store, params, pc, call, locals, messages, raised, result,
                   audit>>

\* the source the processes update, and its observations
ConcurrentSource == sources_keys[1]

NextConcurrent ==
    \/ \E obs \in {o \in StatsObs : o.source = ConcurrentSource} : add_observations(obs)
    \/ \E p \in 1 .. MaxSessions : begin_update(p, ConcurrentSource)
    \/ \E p \in 1 .. MaxSessions : begin_update_multiple(p, ConcurrentSource)
    \/ \E p \in 1 .. MaxSessions : finish_update(p)

ConcurrentSpec == InitStats /\ [][NextConcurrent]_vars

\* C22: whatever the interleaving of the update_statistics calls of
\* several processes for one source, the table holds one row for the
\* source at most: no second row is inserted.
C22_OneRowPerSource ==
    \A s \in KnownSources : Cardinality({r \in survey_statistics : r.source = s}) <= 1

(***************************************************************************)
(* Catch.status_updates: the summary of the observations added in the last *)
(* 1, 7 and 30 days.  Times are in days; an observation carries the time   *)
(* it was added, mjd_added, and the table may hold observations of a       *)
(* source that is not in the registry.                                     *)
(***************************************************************************)
\* for n in [1, 7, 30]
days == <<1, 7, 30>>

\* the times at which the clock is read
ReportTimes == {32, 33, 40}

\* the observations that may be in the table, none added after the first
\* reading of the clock
ReportObs ==
    {[observation_id |-> 1, source |-> sources_keys[1], mjd_start |-> 2, mjd_stop |-> 4,
      mjd_added |-> 3],
     [observation_id |-> 2, source |-> sources_keys[1], mjd_start |-> 6, mjd_stop |-> 8,
      mjd_added |-> 26],
     [observation_id |-> 3, source |-> sources_keys[1], mjd_start |-> 0, mjd_stop |-> 12,
      mjd_added |-> 32],
     [observation_id |-> 4, source |-> sources_keys[2], mjd_start |-> 4, mjd_stop |-> 10,
      mjd_added |-> 31],
     [observation_id |-> 5, source |-> "unknown", mjd_start |-> 2, mjd_stop |-> 6,
      mjd_added |-> 32]}

\* the sources of the rows of the observation table, in the order of the
\* groups
GroupedSources == sources_keys \o <<"unknown">>

\* a window that looks at the time of the observation
where_mjd_start(obs, t0, d) == obs.mjd_start > t0 - d

\* .where(Observation.mjd_added > (t0 - n))
where_mjd_added(obs, t0, d) == obs.mjd_added > t0 - d

\* .group_by(Observation.source): the observations of the window of one
\* source
report_group(t0, d, s) ==
    {o \in observations : o.source = s /\ where_mjd_added(o, t0, d)}

\* for row in rows: if row.source in self.sources.keys(): data.append(...)
RECURSIVE report_rows(_, _, _)
report_rows(t0, d, srcs) ==
    IF srcs = <<>> THEN <<>>
    ELSE LET s == Head(srcs)
             g == report_group(t0, d, s)
         IN (IF g # {} /\ s \in KnownSources
             THEN <<[source |-> s, source_name |-> data_source_name(s), days |-> d,
                     count |-> Cardinality(g),
                     start_date |-> Iso(SetMin({o.mjd_start : o \in g})),
                     stop_date |-> Iso(SetMax({o.mjd_stop : o \in g}))]>>
             ELSE <<>>) \o report_rows(t0, d, Tail(srcs))

\* for n in [1, 7, 30]
RECURSIVE report_windows(_, _)
report_windows(t0, ds) ==
    IF ds = <<>> THEN <<>>
    ELSE report_rows(t0, Head(ds), GroupedSources) \o report_windows(t0, Tail(ds))

InitReport ==
    /\ observations \in SUBSET {o \in ReportObs : o.observation_id \in {1, 5}}
    /\ queries = <<>>
    /\ founds = {}
    /\ next_found_id = 1
    /\ uncertainty_ellipse = FALSE
    /\ padding = 0
    /\ start_date = None
    /\ stop_date = None
    /\ pc = "idle"
    /\ call = NoCall("none")
    /\ i = 0
    /\ count = 0
    /\ cached_query = None
    /\ n = 0
    /\ messages = <<>>
    /\ raised = ""
    /\ result = NoResult
    /\ audit = <<>>
    /\ survey_statistics = {}
    /\ now = SetMin(ReportTimes)
    /\ sessions = NoSessions

\* status_updates(): t0 = Time.now().mjd, then the three windows
status_updates ==
    /\ pc = "idle"
    /\ \E t0 \in ReportTimes :
          /\ t0 >= now
          /\ now' = t0
          /\ result' = [kind |-> "updates", value |-> report_windows(t0, days)]
    /\ call' = NoCall("status_updates")
    /\ messages' = <<>>
    /\ raised' = ""
    /\ UNCHANGED <<observations, survey_statistics, sessions, store, params, pc, locals, audit>>

NextReport ==
    \/ \E obs \in ReportObs : add_observations(obs)
    \/ status_updates

ReportSpec == InitReport /\ [][NextReport]_vars

\* the rows of the report for the window d and the source s
ReportedRows(value, d, s) ==
    {k \in DOMAIN value : value[k].days = d /\ value[k].source = s}

\* the observations of s added less than d days before t0
AddedWithin(obs, t0, d, s) == {o \in obs : o.source = s /\ o.mjd_added > t0 - d}

\* the report `value`, made at the time t0 from the table obs, is the one
\* the claim describes
ReportIsExact(obs, t0, value) ==
    /\ \A k \in DOMAIN value :
          value[k].source \in KnownSources /\ value[k].days \in {1, 7, 30}
    /\ \A d \in {1, 7, 30}, s \in KnownSources :
          LET g == AddedWithin(obs, t0, d, s)
          IN IF g = {} THEN ReportedRows(value, d, s) = {}
             ELSE /\ Cardinality(ReportedRows(value, d, s)) = 1
                  /\ \A k \in ReportedRows(value, d, s) :
                        /\ value[k].count = Cardinality(g)
                        /\ value[k].start_date = Iso(SetMin({o.mjd_start : o \in g}))
                        /\ value[k].stop_date = Iso(SetMax({o.mjd_stop : o \in g}))

\* C23: status_updates returns, for each window of 1, 7 and 30 days and
\* each known source with an observation added in the window, one row with
\* the count, the earliest start and the latest stop of these
\* observations, no row for another source or for a source with nothing
\* added in the window, and it writes nothing.
C23_StatusUpdatesReportsAddedObservations ==
    [][call'.op = "status_updates"
          => /\ ReportIsExact(observations, now', result'.value)
             /\ UNCHANGED <<observations, store, survey_statistics>>]_vars

\* C23, its case: a report in which the first source has a row for each
\* window, with three different counts, the second source has none for
\* the window of one day, and the table holds an observation of a source
\* that is not in the registry
C23_Witness ==
    /\ call.op = "status_updates"
    /\ \E o \in observations : o.source \notin KnownSources
    /\ ReportedRows(result.value, 1, sources_keys[2]) = {}
    /\ ReportedRows(result.value, 7, sources_keys[2]) # {}
    /\ \E a \in ReportedRows(result.value, 1, sources_keys[1]),
          b \in ReportedRows(result.value, 7, sources_keys[1]),
          c \in ReportedRows(result.value, 30, sources_keys[1]) :
          result.value[a].count < result.value[b].count
             /\ result.value[b].count < result.value[c].count

\* the finished rows with the target t, the single source s, the
\* uncertainty_ellipse of the request, a padding between 99% and 101% of the
\* requested one, and stored bounds equal to the requested bounds, those
\* at or beyond the coverage of s taken as null
ExactMatches(t, s) ==
    {a \in DOMAIN queries :
        /\ queries[a].status = "finished"
        /\ queries[a].query = t
        /\ queries[a].source = <<s>>
        /\ queries[a].uncertainty_ellipse = uncertainty_ellipse
        /\ 99 * padding <= 100 * queries[a].padding
        /\ 100 * queries[a].padding <= 101 * padding
        /\ queries[a].start_date = NormalStart(start_date, s)
        /\ queries[a].stop_date = NormalStop(stop_date, s)}

\* C24: the cache lookup returns the row of the highest query_id among the
\* finished rows with the same target, the same single source, the same
\* uncertainty_ellipse, a padding within the tolerance and stored bounds
\* equal to the normalized bounds of the request, and null when there is
\* none: a row whose dates are other than these is not returned.
C24_LookupReturnsLastExactMatch ==
    \A t \in MovingTargets :
       LET m == ExactMatches(t, CacheSource)
       IN find_catch_query(t, CacheSource)
             = IF m = {} THEN None ELSE CHOOSE a \in m : \A b \in m : b <= a

\* C24, its case: two finished rows match the request, and the lookup
\* returns the second
C24_Witness ==
    \E t \in MovingTargets :
       /\ Cardinality(ExactMatches(t, CacheSource)) = 2
       /\ find_catch_query(t, CacheSource) = 2

\* C25 as stated: once update_statistics has run for a source, or for all,
\* the row of the source holds the number of the observations of the
\* source that are in the table, their earliest start and their latest
\* stop, null when there is none, whatever the row held before.
C25_RowHoldsTheObservationsOfTheSource ==
    \A s \in KnownSources :
       (call.op = "update_statistics" /\ call.sources \in {<<>>, <<s>>})
          => /\ Cardinality({r \in survey_statistics : r.source = s}) = 1
             /\ \A r \in survey_statistics :
                   r.source = s
                      => /\ r.count = Cardinality({o \in observations : o.source = s})
                         /\ r.start_date = IsoOrNone(mjd_survey_start(s))
                         /\ r.stop_date = IsoOrNone(mjd_survey_stop(s))

\* the row of the source that is, or was when the process stopped, being
\* processed is in the store, among the rows of the job of the call, and
\* in progress
RowIsVisibleInProgress ==
    /\ queries # <<>>
    /\ Len(queries) \in queries_from_job_id(call.job_id)
    /\ queries[Len(queries)].status = "in progress"

\* C26: while the ephemeris and the search of a fresh search run, for a
\* moving or a fixed target, the new row is in the store with the status
\* in progress, and when the process stops at that point the row stays,
\* in progress, among the rows queries_from_job_id returns for the job.
C26_RowCommittedBeforeSearch ==
    /\ pc \in {"search", "fixed"} => RowIsVisibleInProgress
    /\ result.kind = "crash" => RowIsVisibleInProgress

\* C26, its case: the process has stopped during the fresh search of the
\* second source of a moving-target query
C26_Witness ==
    /\ result.kind = "crash"
    /\ Len(queries) = 2
    /\ audit[2].moving /\ audit[2].path = "fresh"
    /\ queries[2].job_id = queries[1].job_id
    /\ queries[2].status = "in progress"
    /\ founds = {}

\* C27: a moving-target query() with known sources and a start_date not
\* after the stop_date has created, when it returns, one row for each
\* entry of its list of sources, in the order of the list, each with the
\* job id of the call and the one source, whatever the outcome for the
\* source; while it runs it has created one row for each source begun; and
\* for a job id no other call used, queries_from_job_id returns these rows
\* and no other.
C27_OneRowPerRequestedSource ==
    (call.op = "query" /\ call.target \in MovingTargets
        /\ result.kind \in {"running", "count"})
       => LET done == IF result.kind = "count" THEN Len(call.sources)
                      ELSE IF pc = "source" THEN i - 1 ELSE i
          IN /\ Len(queries) = call.base + done
             /\ \A k \in 1 .. done :
                   /\ queries[call.base + k].job_id = call.job_id
                   /\ queries[call.base + k].source = <<call.sources[k]>>
                   /\ queries[call.base + k].query = call.target
             /\ call.new_job
                   => queries_from_job_id(call.job_id) = (call.base + 1) .. (call.base + done)

\* C27, its case: a query over two sources for a new job has returned;
\* the first of its rows is errored, the second finished
C27_Witness ==
    /\ call.op = "query" /\ call.target \in MovingTargets
    /\ result.kind = "count"
    /\ call.new_job
    /\ Len(call.sources) = 2
    /\ queries[call.base + 1].status = "errored"
    /\ queries[call.base + 2].status = "finished"
    /\ queries_from_job_id(call.job_id) = {call.base + 1, call.base + 2}

\* C28 as stated: in every committed state every found row belongs to a
\* finished row of the catch_query table: a row in progress or errored has
\* no found row, and caught returns no match of a search that has not
\* finished.
C28_FoundRowsBelongToFinishedQueries ==
    \A f \in founds :
       /\ f.query_id \in DOMAIN queries
       /\ queries[f.query_id].status = "finished"

\* C29 as stated: the moving-target cache lookup, for any target string
\* and any single source, returns no row that a fixed-target search
\* created.
C29_LookupNeverReturnsFixedTargetRow ==
    \A t \in MovingTargets \cup FixedTargets, s \in KnownSources :
       find_catch_query(t, s) # None => audit[find_catch_query(t, s)].moving

(***************************************************************************)
(* stats.recent_queries: the summary of the queries of a window.  The date *)
(* of a row is the time it was created, so the rows after a time are the   *)
(* rows from some query_id on.                                             *)
(***************************************************************************)
\* .where((CatchQuery.date > ...) & CatchQuery.source.in_(sources)), for
\* the sources known to catch: the rows from the query_id first on that
\* name one known source
recent_queries_where(first) ==
    {a \in DOMAIN queries :
        a >= first /\ \E s \in KnownSources : queries[a].source = Join(<<s>>)}

\* func.count(x) counts the rows for which x is not NULL
\* func.count(CatchQuery.status == "finished"): the comparison is true or
\* false, and NULL for a NULL status only, which no row has
count_status_is_finished(rows) == Cardinality(rows)

\* func.count(CatchQuery.execution_time)
count_execution_time(rows) ==
    Cardinality({a \in rows : queries[a].execution_time # None})

\* func.count(CatchQuery.status == "finished")
\*     - func.count(CatchQuery.execution_time), labelled "cached"
recent_queries_cached(first) ==
    count_status_is_finished(recent_queries_where(first))
        - count_execution_time(recent_queries_where(first))

\* C30 as stated: for every window, the value "cached" of recent_queries
\* is the number of rows of the window that a cache copy served, the
\* finished rows without execution_time, whatever rows, finished, errored
\* or in progress, the window holds.
C30_CachedCountsTheCacheCopies ==
    \A first \in 1 .. Len(queries) + 1 :
       recent_queries_cached(first)
          = Cardinality({a \in recent_queries_where(first) :
                            /\ queries[a].status = "finished"
                            /\ queries[a].execution_time = None})

====
